---- MODULE Spec2Model ----
(***************************************************************************)
(* axum-folder-router: the filesystem-to-route compiler.                   *)
(*                                                                         *)
(* Strings that the code inspects character by character (path segments,   *)
(* URL patterns, module identifiers) are sequences of one-character        *)
(* strings; a path is a sequence of such segments (Path::components()).    *)
(***************************************************************************)
EXTENDS Integers, Sequences, FiniteSets, TLC

VARIABLES
    pc,             \* position of the macro run / of the function under check
    units,          \* directory snapshot: the directories (relative to the base) holding a route.rs file
    routes,         \* FolderRouterRoutes.routes: Vec<(PathBuf, PathBuf)>
    errors,         \* the `errors` token stream: sequence of compile_error! records
    registrations,  \* route_method_registrations of route_registrations
    files,          \* what fs::read_to_string / parse_file gave for each unit read
    module_tree,    \* the ModuleDir tree: node path (raw names from the root) -> has_route
    legacy,         \* expansion of the function-like macro of lib.rs
    input,          \* argument of the function applied (pure-function specifications)
    output,         \* its return value
    stack,          \* the activations of collect_route_files, the innermost last
    visited         \* the directories fs::read_dir was called on, in call order

vars == <<pc, units, routes, errors, registrations, files, module_tree, legacy, input, output,
          stack, visited>>

-----------------------------------------------------------------------------
(* Bounds of the model *)

\* longest directory chain below the base directory
MaxDepth == 2
\* most route.rs files in one directory snapshot
MaxUnits == 3
\* most top-level items in one route.rs source
MaxItems == 2
\* longest segment name given to normalize_module_name on its own
MaxNameLen == 3

-----------------------------------------------------------------------------
(* Characters and strings *)

Lower == <<"a","b","c","d","e","f","g","h","i","j","k","l","m",
           "n","o","p","q","r","s","t","u","v","w","x","y","z">>

\* position of a lower-case letter in the alphabet
LowerRank ==
    [c \in {Lower[i] : i \in 1..Len(Lower)} |-> CHOOSE i \in 1..Len(Lower) : Lower[i] = c]

\* byte value of a character (OsStr comparison is bytewise)
Byte(c) ==
    IF c \in DOMAIN LowerRank
    THEN 96 + LowerRank[c]
    ELSE CASE c = "*" -> 42
           [] c = "-" -> 45
           [] c = "." -> 46
           [] c = "/" -> 47
           [] c = ":" -> 58
           [] c = "R" -> 82
           [] c = "[" -> 91
           [] c = "]" -> 93
           [] c = "_" -> 95
           [] c = "{" -> 123
           [] c = "}" -> 125

\* str::starts_with(char) / str::ends_with(char)
starts_with(s, c) == Len(s) > 0 /\ s[1] = c
ends_with(s, c) == Len(s) > 0 /\ s[Len(s)] = c

\* str::strip_prefix("..."): TRUE when the prefix is there
has_dots_prefix(s) == Len(s) >= 3 /\ s[1] = "." /\ s[2] = "." /\ s[3] = "."
strip_dots_prefix(s) == SubSeq(s, 4, Len(s))

\* faulty variant: str::replace('-', "_")
replace_dash(s) == [i \in 1..Len(s) |-> IF s[i] = "-" THEN "_" ELSE s[i]]

\* str::replace(['-', '.'], "_")
replace_dash_dot(s) == [i \in 1..Len(s) |-> IF s[i] \in {"-", "."} THEN "_" ELSE s[i]]

\* bytewise lexicographic order of two strings (Ord for OsStr)
RECURSIVE StrLess(_, _)
StrLess(a, b) ==
    IF Len(b) = 0 THEN FALSE
    ELSE IF Len(a) = 0 THEN TRUE
    ELSE IF Byte(a[1]) # Byte(b[1]) THEN Byte(a[1]) < Byte(b[1])
    ELSE StrLess(Tail(a), Tail(b))

\* component-wise lexicographic order of two paths (Ord for Path)
RECURSIVE PathLess(_, _)
PathLess(p, q) ==
    IF Len(q) = 0 THEN FALSE
    ELSE IF Len(p) = 0 THEN TRUE
    ELSE IF p[1] # q[1] THEN StrLess(p[1], q[1])
    ELSE PathLess(Tail(p), Tail(q))

-----------------------------------------------------------------------------
(* Names that occur in the modelled directory trees *)

ROUTE_RS == <<"r","o","u","t","e",".","r","s">>
ROUTE == <<"r","o","u","t","e">>
USERS == <<"u","s","e","r","s">>
FILES == <<"f","i","l","e","s">>
ID == <<"[","i","d","]">>
CATCHALL_PATH == <<"[",".",".",".","p","a","t","h","]">>
A_DASH_B == <<"a","-","b">>
A_DOT_B == <<"a",".","b">>
EMPTY_PARAM == <<"[","]">>
EMPTY_CATCHALL == <<"[",".",".",".","]">>
HALF_OPEN == <<"[","i","d">>
API == <<"a","p","i">>
UNDERSCORE_ID == <<"_","_","i","d">>
ROUTE_RS_UPPER == <<"R","o","u","t","e",".","r","s">>
ROUTE_RS_BAK == <<"r","o","u","t","e",".","r","s",".","b","a","k">>
ROUTES_RS == <<"r","o","u","t","e","s",".","r","s">>

\* the base directory handed to the macro
BaseDir == <<API>>

-----------------------------------------------------------------------------
(* generate.rs: names and paths *)

\* faulty variant: the catch-all marker is not recognised
normalize_module_name_no_catchall(name) ==
    IF starts_with(name, "[") /\ ends_with(name, "]")
    THEN <<"_", "_">> \o SubSeq(name, 2, Len(name) - 1)
    ELSE replace_dash_dot(name)

normalize_module_name(name) ==
    IF starts_with(name, "[") /\ ends_with(name, "]")
    THEN LET inner == SubSeq(name, 2, Len(name) - 1)
         IN  IF has_dots_prefix(inner)
             THEN <<"_", "_", "_">> \o strip_dots_prefix(inner)
             ELSE <<"_", "_">> \o inner
    ELSE replace_dash_dot(name)

\* the URL fragment written for one directory segment (generate.rs:93-102)
axum_fragment(segment) ==
    IF starts_with(segment, "[") /\ ends_with(segment, "]")
    THEN LET param == SubSeq(segment, 2, Len(segment) - 1)
         IN  IF has_dots_prefix(param)
             THEN <<"/", "{", "*">> \o strip_dots_prefix(param) \o <<"}">>
             ELSE <<"/", "{", ":">> \o param \o <<"}">>
    ELSE <<"/">> \o segment

\* the loop of path_to_module_path from component i on; acc = (axum_path, mod_path)
RECURSIVE path_loop(_, _, _)
path_loop(components, i, acc) ==
    IF i > Len(components) THEN acc
    ELSE LET segment == components[i]
         IN  IF i = Len(components) /\ segment = ROUTE_RS
             THEN path_loop(components, i + 1,
                     [axum_path |-> acc.axum_path,
                      mod_path |-> Append(acc.mod_path, ROUTE)])
             ELSE path_loop(components, i + 1,
                     [axum_path |-> acc.axum_path \o axum_fragment(segment),
                      mod_path |-> Append(acc.mod_path, normalize_module_name(segment))])

\* faulty variant: an empty axum_path is returned as it is
path_to_module_path_no_root(rel_path) ==
    IF Len(rel_path) = 0
    THEN [axum_path |-> <<"/">>, mod_path |-> <<ROUTE>>]
    ELSE path_loop(rel_path, 1, [axum_path |-> <<>>, mod_path |-> <<>>])

path_to_module_path(rel_path) ==
    IF Len(rel_path) = 0
    THEN [axum_path |-> <<"/">>, mod_path |-> <<ROUTE>>]
    ELSE LET r == path_loop(rel_path, 1, [axum_path |-> <<>>, mod_path |-> <<>>])
         IN  IF Len(r.axum_path) = 0
             THEN [axum_path |-> <<"/">>, mod_path |-> r.mod_path]
             ELSE r

-----------------------------------------------------------------------------
(* Specification of path_to_module_path on bounded relative paths *)

SegNames == {USERS, FILES, ID, CATCHALL_PATH, A_DASH_B, A_DOT_B, EMPTY_PARAM,
             EMPTY_CATCHALL, HALF_OPEN, ROUTE_RS}

\* relative paths of route units (directories, then route.rs), and the empty path
RelPaths ==
    {<<>>} \cup
    {d \o <<ROUTE_RS>> : d \in UNION {[1..n -> SegNames] : n \in 0..MaxDepth}}

InitPath ==
    /\ pc = "path_start"
    /\ input \in RelPaths
    /\ output = <<>>
    /\ units = {} /\ routes = <<>> /\ errors = <<>> /\ registrations = <<>>
    /\ files = <<>> /\ module_tree = <<>> /\ legacy = <<>>
    /\ stack = <<>> /\ visited = <<>>

PathToModulePath ==
    /\ pc = "path_start"
    /\ output' = path_to_module_path(input)
    /\ pc' = "path_done"
    /\ UNCHANGED <<units, routes, errors, registrations, files, module_tree, legacy, input, stack, visited>>

-----------------------------------------------------------------------------
(* Specification of normalize_module_name on bounded segment names *)

NameChars == {"a", "-", ".", "[", "]", "_"}

\* every name of at most MaxNameLen characters
Names == UNION {[1..n -> NameChars] : n \in 0..MaxNameLen}

InitName ==
    /\ pc = "name_start"
    /\ input \in Names
    /\ output = <<>>
    /\ units = {} /\ routes = <<>> /\ errors = <<>> /\ registrations = <<>>
    /\ files = <<>> /\ module_tree = <<>> /\ legacy = <<>>
    /\ stack = <<>> /\ visited = <<>>

NormalizeModuleName ==
    /\ pc = "name_start"
    /\ output' = normalize_module_name(input)
    /\ pc' = "name_done"
    /\ UNCHANGED <<units, routes, errors, registrations, files, module_tree, legacy, input, stack, visited>>

SpecName == InitName /\ [][NormalizeModuleName]_vars

-----------------------------------------------------------------------------
(* parse.rs: the handler method extractor *)

allowed_methods ==
    <<"any", "get", "post", "put", "delete", "patch", "head", "options", "trace", "connect">>

\* faulty variant: asyncness is not looked at
RECURSIVE found_methods_no_async(_)
found_methods_no_async(items) ==
    IF Len(items) = 0 THEN <<>>
    ELSE LET item == Head(items)
         IN  IF item.kind = "fn" /\ item.vis = "pub"
             THEN <<item.name>> \o found_methods_no_async(Tail(items))
             ELSE found_methods_no_async(Tail(items))

\* the names pushed to found_methods: every top-level `pub async fn` (parse.rs:85-95)
RECURSIVE found_methods(_)
found_methods(items) ==
    IF Len(items) = 0 THEN <<>>
    ELSE LET item == Head(items)
             is_public == item.vis = "pub"
             is_async == item.asyncness
         IN  IF item.kind = "fn" /\ is_public /\ is_async
             THEN <<item.name>> \o found_methods(Tail(items))
             ELSE found_methods(Tail(items))

\* faulty variant: the found methods are returned in declaration order
filter_allowed_decl_order(found) ==
    LET allowed(m) == \E i \in 1..Len(allowed_methods) : allowed_methods[i] = m
    IN  SelectSeq(found, allowed)

\* allowed_methods filtered by membership in found_methods (parse.rs:98-106)
filter_allowed(found) ==
    LET keep(elem) == \E i \in 1..Len(found) : found[i] = elem
    IN  SelectSeq(allowed_methods, keep)

\* file: what reading and parsing the file at route_path gives
methods_for_route(file) ==
    IF file.read = "unreadable" THEN <<>>
    ELSE IF file.read = "parse_error" THEN <<>>
    ELSE filter_allowed(found_methods(file.items))

-----------------------------------------------------------------------------
(* Specification of methods_for_route on bounded sources *)

FnNames == {"any", "get", "delete", "connect", "Get"}
Visibilities == {"pub", "restricted", "inherited"}

\* top-level items: functions, and one item that is no function (`pub struct get;`)
Items ==
    [kind : {"fn"}, name : FnNames, vis : Visibilities, asyncness : BOOLEAN]
    \cup {[kind |-> "struct", name |-> "get", vis |-> "pub", asyncness |-> FALSE]}

\* a file that parses, with its top-level items
Parsed(items) == [read |-> "ok", items |-> items]

Sources ==
    {[read |-> "unreadable", items |-> <<>>], [read |-> "parse_error", items |-> <<>>]}
    \cup {Parsed(items) : items \in UNION {[1..n -> Items] : n \in 0..MaxItems}}

InitMethods ==
    /\ pc = "methods_start"
    /\ input \in Sources
    /\ output = <<>>
    /\ units = {} /\ routes = <<>> /\ errors = <<>> /\ registrations = <<>>
    /\ files = <<>> /\ module_tree = <<>> /\ legacy = <<>>
    /\ stack = <<>> /\ visited = <<>>

MethodsForRoute ==
    /\ pc = "methods_start"
    /\ output' = methods_for_route(input)
    /\ pc' = "methods_done"
    /\ UNCHANGED <<units, routes, errors, registrations, files, module_tree, legacy, input, stack, visited>>

-----------------------------------------------------------------------------
(* The directory snapshot and fs::read_dir *)

\* a tree is built over one vocabulary of directory names
NameGroups == {{USERS, ID}, {FILES, CATCHALL_PATH}}

DirPaths(g) == UNION {[1..n -> g] : n \in 0..MaxDepth}

Trees == UNION {{S \in SUBSET DirPaths(g) : Cardinality(S) <= MaxUnits} : g \in NameGroups}

IsPrefix(p, q) == Len(p) <= Len(q) /\ SubSeq(q, 1, Len(p)) = p

\* Path::strip_prefix: the path relative to base (base is always a prefix here)
strip_prefix(path, base) == SubSeq(path, Len(base) + 1, Len(path))

\* a snapshot of the tree under the base directory, paths relative to it:
\*   units      the directories that hold a file route.rs
\*   others     the other non-directory entries (directory path, then name)
\*   unlistable the directories fs::read_dir fails on
\* and the order in which read_dir enumerates
snapshot(us, order) == [units |-> us, others |-> {}, unlistable |-> {}, order |-> order]

\* the directories of the snapshot
Dirs(fs) ==
    UNION {{SubSeq(u, 1, n) : n \in 0..Len(u)} : u \in fs.units \cup fs.unlistable}
    \cup UNION {{SubSeq(o, 1, n) : n \in 0..(Len(o) - 1)} : o \in fs.others}

\* the entries of directory dir (absolute): its subdirectories and its files
DirEntries(fs, base_dir, dir) ==
    LET rel == strip_prefix(dir, base_dir)
        below == {v \in fs.units \cup fs.unlistable : IsPrefix(rel, v) /\ Len(v) > Len(rel)}
                 \cup {o \in fs.others : IsPrefix(rel, o) /\ Len(o) > Len(rel) + 1}
    IN  {[name |-> u[Len(rel) + 1], is_dir |-> TRUE] : u \in below}
        \cup (IF rel \in fs.units THEN {[name |-> ROUTE_RS, is_dir |-> FALSE]} ELSE {})
        \cup {[name |-> o[Len(o)], is_dir |-> FALSE] :
                 o \in {v \in fs.others : SubSeq(v, 1, Len(v) - 1) = rel}}

\* the orders in which read_dir may enumerate a directory
EnumOrders == {"asc", "desc"}

RECURSIVE EnumSeq(_, _)
EnumSeq(S, order) ==
    IF S = {} THEN <<>>
    ELSE LET first == CHOOSE e \in S : \A f \in S \ {e} :
                          IF order = "asc" THEN StrLess(e.name, f.name)
                                           ELSE StrLess(f.name, e.name)
         IN  <<first>> \o EnumSeq(S \ {first}, order)

\* fs::read_dir: Err for a directory that cannot be listed, else its entries
read_dir(fs, base_dir, dir, order) ==
    IF strip_prefix(dir, base_dir) \in fs.unlistable
    THEN [ok |-> FALSE, entries |-> <<>>]
    ELSE [ok |-> TRUE, entries |-> EnumSeq(DirEntries(fs, base_dir, dir), order)]

-----------------------------------------------------------------------------
(* parse.rs: the route unit collector *)

\* faulty variant: shorter paths sort first
RouteLess_by_depth(a, b) ==
    \/ Len(a.rel_path) < Len(b.rel_path)
    \/ Len(a.rel_path) = Len(b.rel_path) /\ PathLess(a.rel_path, b.rel_path)

\* Ord of (PathBuf, PathBuf)
RouteLess(a, b) ==
    \/ PathLess(a.route_path, b.route_path)
    \/ a.route_path = b.route_path /\ PathLess(a.rel_path, b.rel_path)

\* Vec::sort (stable; insertion into the sorted prefix)
RECURSIVE sort_insert(_, _)
sort_insert(sorted, x) ==
    IF Len(sorted) = 0 THEN <<x>>
    ELSE IF RouteLess(x, Head(sorted)) THEN <<x>> \o sorted
    ELSE <<Head(sorted)>> \o sort_insert(Tail(sorted), x)

RECURSIVE sort(_)
sort(v) ==
    IF Len(v) = 0 THEN <<>>
    ELSE sort_insert(sort(SubSeq(v, 1, Len(v) - 1)), v[Len(v)])

\* faulty variant: any name that begins with route.rs is taken
is_route_file_by_prefix(name) ==
    Len(name) >= Len(ROUTE_RS) /\ SubSeq(name, 1, Len(ROUTE_RS)) = ROUTE_RS

\* path.file_name().unwrap_or_default() == "route.rs"
is_route_file(name) == name = ROUTE_RS

RECURSIVE collect_entries(_, _, _, _, _)
RECURSIVE collect_route_files(_, _, _, _)

\* the body of the `for entry in entries` loop, from entry i on
collect_entries(fs, base_dir, dir, entries, i) ==
    IF i > Len(entries) THEN <<>>
    ELSE LET path == Append(dir, entries[i].name)
             here == IF entries[i].is_dir
                     THEN collect_route_files(fs, base_dir, path, fs.order)
                     ELSE IF is_route_file(entries[i].name)
                          THEN <<[route_path |-> path,
                                  rel_path |-> strip_prefix(path, base_dir)]>>
                          ELSE <<>>
         IN  here \o collect_entries(fs, base_dir, dir, entries, i + 1)

\* `if let Ok(entries) = fs::read_dir(dir)`: a failed listing leaves routes empty
collect_listing(fs, base_dir, dir, listing) ==
    IF listing.ok THEN collect_entries(fs, base_dir, dir, listing.entries, 1) ELSE <<>>

\* faulty variant: the trailing routes.sort() is missing
collect_route_files_unsorted(fs, base_dir, dir, order) ==
    collect_listing(fs, base_dir, dir, read_dir(fs, base_dir, dir, order))

collect_route_files(fs, base_dir, dir, order) ==
    sort(collect_listing(fs, base_dir, dir, read_dir(fs, base_dir, dir, order)))

\* faulty variant: an empty result is not reported
parse_from_path_no_check(errs, fs, path) ==
    [errors |-> errs, routes |-> collect_route_files(fs, path, path, fs.order)]

parse_from_path(errs, fs, path) ==
    LET rs == collect_route_files(fs, path, path, fs.order)
    IN  [errors |-> IF Len(rs) = 0
                    THEN Append(errs, [kind |-> "NoRouteFiles", path |-> path])
                    ELSE errs,
         routes |-> rs]

-----------------------------------------------------------------------------
(* generate.rs: the route table assembler *)

\* faulty variant: the loop stops at the first unit without a method
RECURSIVE registrations_loop_until_empty(_, _, _)
registrations_loop_until_empty(read, rs, i) ==
    IF i > Len(rs) THEN <<>>
    ELSE LET p == path_to_module_path(rs[i].rel_path)
             method_registrations == methods_for_route(read[rs[i].route_path])
         IN  IF Len(method_registrations) # 0
             THEN <<[axum_path |-> p.axum_path,
                     mod_path |-> p.mod_path,
                     methods |-> method_registrations]>>
                  \o registrations_loop_until_empty(read, rs, i + 1)
             ELSE <<>>

RECURSIVE registrations_loop(_, _, _)
registrations_loop(read, rs, i) ==
    IF i > Len(rs) THEN <<>>
    ELSE LET p == path_to_module_path(rs[i].rel_path)
             method_registrations == methods_for_route(read[rs[i].route_path])
         IN  (IF Len(method_registrations) # 0
              THEN <<[axum_path |-> p.axum_path,
                      mod_path |-> p.mod_path,
                      methods |-> method_registrations]>>
              ELSE <<>>)
             \o registrations_loop(read, rs, i + 1)

\* faulty variant: an empty route table is not reported
route_registrations_no_check(errs, read, rs) ==
    [errors |-> errs, registrations |-> registrations_loop(read, rs, 1)]

route_registrations(errs, read, rs) ==
    LET route_method_registrations == registrations_loop(read, rs, 1)
    IN  [errors |-> IF Len(route_method_registrations) = 0
                    THEN Append(errs, [kind |-> "NoRoutesDefined"])
                    ELSE errs,
         registrations |-> route_method_registrations]

-----------------------------------------------------------------------------
(* generate.rs: the namespace tree builder *)

\* ModuleDir::new: a tree that holds the root node alone
new_module_dir == (<<>> :> FALSE)

\* faulty variant: the flag is set on the node the call started from
set_has_route_at_self(tree, at) == [tree EXCEPT ![<<>>] = TRUE]

\* sets has_route of the node at path `at`
set_has_route(tree, at) == [tree EXCEPT ![at] = TRUE]

\* faulty variant: children.insert(segment, ModuleDir::new(segment)), which
\* replaces a child that is there, with all below it
entry_insert(tree, at) ==
    [p \in {q \in DOMAIN tree : ~IsPrefix(at, q)} \cup {at} |->
        IF p = at THEN FALSE ELSE tree[p]]

\* children.entry(segment).or_insert_with(ModuleDir::new)
entry_or_insert(tree, at) ==
    IF at \in DOMAIN tree THEN tree ELSE tree @@ (at :> FALSE)

\* the loop of add_to_module_tree from component i on; `at` is the node reached
RECURSIVE add_loop(_, _, _, _)
add_loop(tree, components, i, at) ==
    IF i > Len(components) THEN tree
    ELSE IF i = Len(components) /\ components[i] = ROUTE_RS
         THEN set_has_route(tree, at)
         ELSE LET child == Append(at, components[i])
              IN  add_loop(entry_or_insert(tree, child), components, i + 1, child)

add_to_module_tree(tree, rel_path) ==
    IF Len(rel_path) = 0
    THEN set_has_route(tree, <<>>)
    ELSE add_loop(tree, rel_path, 1, <<>>)

\* module_tree: the fold of add_to_module_tree over the routes
RECURSIVE fold_routes(_, _, _)
fold_routes(tree, rs, i) ==
    IF i > Len(rs) THEN tree
    ELSE fold_routes(add_to_module_tree(tree, rs[i].rel_path), rs, i + 1)

build_module_tree(rs) == fold_routes(new_module_dir, rs, 1)

\* the children of the node at `at` (the keys of its BTreeMap, as node paths)
children(tree, at) ==
    {p \in DOMAIN tree : Len(p) = Len(at) + 1 /\ SubSeq(p, 1, Len(at)) = at}

\* BTreeMap::values: the children in ascending order of their raw names
RECURSIVE children_values(_)
children_values(S) ==
    IF S = {} THEN <<>>
    ELSE LET first == CHOOSE p \in S : \A q \in S \ {p} : StrLess(p[Len(p)], q[Len(q)])
         IN  <<first>> \o children_values(S \ {first})

\* faulty variant: the module is named by the directory's raw name
child_mod_name_raw(name) == name

\* format_ident!("{}", normalize_module_name(&child.name))
child_mod_name(name) == normalize_module_name(name)

RECURSIVE generate_module_hierarchy(_, _)
RECURSIVE hierarchy_children(_, _, _)

\* the `for child in dir.children.values()` loop, from child i on: one
\* `#[path = <raw name>] pub mod <normalized name> { <content> }` per child
hierarchy_children(tree, kids, i) ==
    IF i > Len(kids) THEN <<>>
    ELSE LET child_name == child_mod_name(kids[i][Len(kids[i])])
             child_path_lit == kids[i][Len(kids[i])]
             child_content == generate_module_hierarchy(tree, kids[i])
         IN  <<[path |-> child_path_lit, name |-> child_name,
                inline |-> TRUE, content |-> child_content]>>
             \o hierarchy_children(tree, kids, i + 1)

\* the module declarations emitted for the node at `at`, in order:
\* `#[path = "route.rs"] pub mod route;` first when the node has a route
generate_module_hierarchy(tree, at) ==
    (IF tree[at]
     THEN <<[path |-> ROUTE_RS, name |-> ROUTE, inline |-> FALSE, content |-> <<>>]>>
     ELSE <<>>)
    \o hierarchy_children(tree, children_values(children(tree, at)), 1)

-----------------------------------------------------------------------------
(* One run of the attribute macro over a directory snapshot *)

PubAsync(name) == [kind |-> "fn", name |-> name, vis |-> "pub", asyncness |-> TRUE]

\* the sources a unit of the snapshot may hold
UnitSources ==
    { Parsed(<<[kind |-> "fn", name |-> "get", vis |-> "inherited", asyncness |-> TRUE]>>),
      Parsed(<<PubAsync("get")>>),
      Parsed(<<PubAsync("post"), PubAsync("get")>>) }

InitMacro ==
    /\ pc = "start"
    /\ units \in Trees
    /\ routes = <<>> /\ errors = <<>> /\ registrations = <<>>
    /\ files = <<>> /\ module_tree = <<>> /\ legacy = <<>>
    /\ stack = <<>> /\ visited = <<>>
    /\ input = <<>> /\ output = <<>>

ParseFromPath ==
    /\ pc = "start"
    /\ \E order \in EnumOrders :
         LET r == parse_from_path(errors, snapshot(units, order), BaseDir)
         IN  /\ routes' = r.routes
             /\ errors' = r.errors
    /\ pc' = "parsed"
    /\ UNCHANGED <<units, registrations, files, module_tree, legacy, input, output, stack, visited>>

ModuleTree ==
    /\ pc = "parsed"
    /\ module_tree' = build_module_tree(routes)
    /\ pc' = "tree"
    /\ UNCHANGED <<units, routes, errors, registrations, files, legacy, input, output, stack, visited>>

\* router_impl, the units' files holding sources out of `sources`
router_impl(sources) ==
    /\ pc = "tree"
    /\ \E read \in [{routes[k].route_path : k \in 1..Len(routes)} -> sources] :
         LET r == route_registrations(errors, read, routes)
         IN  /\ files' = read
             /\ registrations' = r.registrations
             /\ errors' = r.errors
    /\ pc' = "done"
    /\ UNCHANGED <<units, routes, module_tree, legacy, input, output, stack, visited>>

RouterImpl == router_impl(UnitSources)

Init == InitMacro \/ InitPath \/ InitMethods

Next == ParseFromPath \/ ModuleTree \/ RouterImpl \/ PathToModulePath \/ MethodsForRoute

Spec == Init /\ [][Next]_vars

-----------------------------------------------------------------------------
(* One run of the attribute macro over units that may fail to read or parse *)

\* what fs::read_to_string and syn::parse_file may give for a unit's file
FailingSources ==
    { [read |-> "unreadable", items |-> <<>>],
      [read |-> "parse_error", items |-> <<>>],
      Parsed(<<PubAsync("get")>>) }

\* one unit fewer than in Trees: each unit holds any of the three sources
ReadTrees == {S \in SUBSET DirPaths({USERS, ID}) : Cardinality(S) <= MaxUnits - 1}

InitRead ==
    /\ pc = "start"
    /\ units \in ReadTrees
    /\ routes = <<>> /\ errors = <<>> /\ registrations = <<>>
    /\ files = <<>> /\ module_tree = <<>> /\ legacy = <<>>
    /\ stack = <<>> /\ visited = <<>>
    /\ input = <<>> /\ output = <<>>

RouterImplRead == router_impl(FailingSources)

NextRead == ParseFromPath \/ ModuleTree \/ RouterImplRead

SpecRead == InitRead /\ [][NextRead]_vars

-----------------------------------------------------------------------------
(* Specification of the namespace tree builder: add_to_module_tree applied *)
(* to the units of a set one at a time, in any order, then the emission    *)

\* sibling directory names: two literals, and a parameter beside a literal
TreeNameGroups == {{A_DASH_B, A_DOT_B}, {ID, UNDERSCORE_ID}}

\* the sets of unit directories folded into one tree
TreeUnits ==
    UNION {{S \in SUBSET DirPaths(g) : Cardinality(S) <= MaxUnits} : g \in TreeNameGroups}

InitTree ==
    /\ pc = "fold"
    /\ units \in TreeUnits
    /\ input = units
    /\ module_tree = new_module_dir
    /\ output = <<>>
    /\ routes = <<>> /\ errors = <<>> /\ registrations = <<>>
    /\ files = <<>> /\ legacy = <<>>
    /\ stack = <<>> /\ visited = <<>>

\* one call of add_to_module_tree, for a unit not yet added or for one added before
AddToModuleTree ==
    /\ pc = "fold"
    /\ \E d \in units :
         /\ module_tree' = add_to_module_tree(module_tree, d \o <<ROUTE_RS>>)
         /\ input' = input \ {d}
    /\ UNCHANGED <<pc, units, routes, errors, registrations, files, legacy, output, stack, visited>>

\* generate_module_hierarchy(&root), once every unit is added
GenerateModuleHierarchy ==
    /\ pc = "fold"
    /\ input = {}
    /\ output' = generate_module_hierarchy(module_tree, <<>>)
    /\ pc' = "emitted"
    /\ UNCHANGED <<units, routes, errors, registrations, files, module_tree, legacy, input, stack, visited>>

NextTree == AddToModuleTree \/ GenerateModuleHierarchy

SpecTree == InitTree /\ [][NextTree]_vars

-----------------------------------------------------------------------------
(* Specification of collect_route_files on bounded directory snapshots *)

\* the subsets of S with at most k elements
RECURSIVE UpTo(_, _)
UpTo(S, k) ==
    IF k = 0 THEN {{}}
    ELSE LET smaller == UpTo(S, k - 1)
         IN  smaller \cup {T \cup {x} : T \in smaller, x \in S}

\* directory names: a plain one, and a directory that is itself called route.rs
CollectDirNames == {USERS, ROUTE_RS}

\* a snapshot holds route.rs files and files of one other name
OtherNames == {ROUTE_RS_UPPER, ROUTE_RS_BAK, ROUTES_RS}

CollectDirs == UNION {[1..n -> CollectDirNames] : n \in 0..(MaxDepth - 1)}

\* no file of F lies where a directory of F is
NoClash(F) == \A p, q \in F : p = q \/ ~IsPrefix(p, q)

\* the snapshots of at most k files whose other files are called `other`, at
\* most one directory of which cannot be listed
SnapshotsOf(other, k) ==
    UNION {
        { [units |-> {SubSeq(p, 1, Len(p) - 1) : p \in {q \in F : q[Len(q)] = ROUTE_RS}},
           others |-> {q \in F : q[Len(q)] # ROUTE_RS},
           unlistable |-> U] :
          U \in UpTo(UNION {{SubSeq(p, 1, n) : n \in 0..(Len(p) - 1)} : p \in F}, 1) } :
        F \in {G \in UpTo({d \o <<f>> : d \in CollectDirs, f \in {ROUTE_RS, other}}, k) :
                 NoClash(G)} }

\* the snapshots of at most MaxUnits files
Snapshots(other) == SnapshotsOf(other, MaxUnits)

InitCollect ==
    /\ pc = "collect_start"
    /\ \E other \in OtherNames : input \in Snapshots(other)
    /\ output = <<>>
    /\ units = {} /\ routes = <<>> /\ errors = <<>> /\ registrations = <<>>
    /\ files = <<>> /\ module_tree = <<>> /\ legacy = <<>>
    /\ stack = <<>> /\ visited = <<>>

CollectRouteFiles ==
    /\ pc = "collect_start"
    /\ \E order \in EnumOrders :
         output' = collect_route_files(
                       [units |-> input.units, others |-> input.others,
                        unlistable |-> input.unlistable, order |-> order],
                       BaseDir, BaseDir, order)
    /\ pc' = "collect_done"
    /\ UNCHANGED <<units, routes, errors, registrations, files, module_tree, legacy, input, stack, visited>>

SpecCollect == InitCollect /\ [][CollectRouteFiles]_vars

-----------------------------------------------------------------------------
(* Specification of collect_route_files run step by step: one activation   *)
(* per directory, one step per entry of its listing                        *)

\* the snapshot `input` as read_dir sees it when it enumerates in `order`
listed_in(order) ==
    [units |-> input.units, others |-> input.others,
     unlistable |-> input.unlistable, order |-> order]

\* entry of collect_route_files(base_dir, dir): `let mut routes = Vec::new()`,
\* then `if let Ok(entries) = fs::read_dir(dir)`; a failed listing has no entry
activation(listing, dir) ==
    [dir |-> dir,
     entries |-> IF listing.ok THEN listing.entries ELSE <<>>,
     routes |-> <<>>]

\* faulty variant: the nested routes are appended twice
append_twice(rs, nested_routes) == rs \o nested_routes \o nested_routes

\* routes.append(&mut nested_routes)
append(rs, nested_routes) == rs \o nested_routes

\* the innermost activation, and the path of the entry its loop is at
top == stack[Len(stack)]
entry_path == top.dir \o <<Head(top.entries).name>>

\* the trees walked: at most MaxUnits - 1 files, the other ones called routes.rs
WalkSnapshots(k) == SnapshotsOf(ROUTES_RS, k - 1)

InitWalk ==
    /\ pc = "walk_start"
    /\ input \in WalkSnapshots(MaxUnits)
    /\ output = <<>>
    /\ units = {} /\ routes = <<>> /\ errors = <<>> /\ registrations = <<>>
    /\ files = <<>> /\ module_tree = <<>> /\ legacy = <<>>
    /\ stack = <<>> /\ visited = <<>>

\* the call collect_route_files(base_dir, base_dir)
CollectCall ==
    /\ pc = "walk_start"
    /\ \E order \in EnumOrders :
         stack' = <<activation(read_dir(listed_in(order), BaseDir, BaseDir, order), BaseDir)>>
    /\ visited' = <<BaseDir>>
    /\ pc' = "walk"
    /\ UNCHANGED <<units, routes, errors, registrations, files, module_tree, legacy, input, output>>

\* `if path.is_dir()`: the nested call on the entry
CollectDescend ==
    /\ pc = "walk"
    /\ top.entries # <<>>
    /\ Head(top.entries).is_dir
    /\ \E order \in EnumOrders :
         stack' = Append([stack EXCEPT ![Len(stack)].entries = Tail(@)],
                         activation(read_dir(listed_in(order), BaseDir, entry_path, order),
                                    entry_path))
    /\ visited' = Append(visited, entry_path)
    /\ UNCHANGED <<pc, units, routes, errors, registrations, files, module_tree, legacy, input, output>>

\* `else if path.file_name().unwrap_or_default() == "route.rs"`: the pair is pushed
CollectPush ==
    /\ pc = "walk"
    /\ top.entries # <<>>
    /\ ~Head(top.entries).is_dir
    /\ is_route_file(Head(top.entries).name)
    /\ stack' = [stack EXCEPT ![Len(stack)] =
                    [dir |-> @.dir,
                     entries |-> Tail(@.entries),
                     routes |-> Append(@.routes,
                                       [route_path |-> entry_path,
                                        rel_path |-> strip_prefix(entry_path, BaseDir)])]]
    /\ UNCHANGED <<pc, units, routes, errors, registrations, files, module_tree, legacy, input, output, visited>>

\* an entry that is neither a directory nor called route.rs
CollectSkip ==
    /\ pc = "walk"
    /\ top.entries # <<>>
    /\ ~Head(top.entries).is_dir
    /\ ~is_route_file(Head(top.entries).name)
    /\ stack' = [stack EXCEPT ![Len(stack)].entries = Tail(@)]
    /\ UNCHANGED <<pc, units, routes, errors, registrations, files, module_tree, legacy, input, output, visited>>

\* the end of a nested call: `routes.sort(); routes`, appended by the caller
CollectReturn ==
    /\ pc = "walk"
    /\ Len(stack) > 1
    /\ top.entries = <<>>
    /\ stack' = [SubSeq(stack, 1, Len(stack) - 1) EXCEPT ![Len(stack) - 1].routes =
                    append(@, sort(top.routes))]
    /\ UNCHANGED <<pc, units, routes, errors, registrations, files, module_tree, legacy, input, output, visited>>

\* the end of the outermost call
CollectDone ==
    /\ pc = "walk"
    /\ Len(stack) = 1
    /\ top.entries = <<>>
    /\ output' = sort(top.routes)
    /\ stack' = <<>>
    /\ pc' = "walk_done"
    /\ UNCHANGED <<units, routes, errors, registrations, files, module_tree, legacy, input, visited>>

NextWalk ==
    CollectCall \/ CollectDescend \/ CollectPush \/ CollectSkip \/ CollectReturn \/ CollectDone

\* the function runs sequentially: a step that can be taken is taken
SpecWalk == InitWalk /\ [][NextWalk]_vars /\ WF_vars(NextWalk)

-----------------------------------------------------------------------------
(* lib.rs: the function-like macro folder_router!, with its own helpers *)

RECURSIVE lib_collect_entries(_, _, _, _, _)
RECURSIVE lib_collect_route_files(_, _, _, _)

lib_collect_entries(fs, base_dir, dir, entries, i) ==
    IF i > Len(entries) THEN <<>>
    ELSE LET path == Append(dir, entries[i].name)
             here == IF entries[i].is_dir
                     THEN lib_collect_route_files(fs, base_dir, path, fs.order)
                     ELSE IF entries[i].name = ROUTE_RS
                          THEN <<[route_path |-> path,
                                  rel_path |-> strip_prefix(path, base_dir)]>>
                          ELSE <<>>
         IN  here \o lib_collect_entries(fs, base_dir, dir, entries, i + 1)

\* `if let Ok(entries) = fs::read_dir(dir)`
lib_collect_listing(fs, base_dir, dir, listing) ==
    IF listing.ok THEN lib_collect_entries(fs, base_dir, dir, listing.entries, 1) ELSE <<>>

\* pushes to `routes` in enumeration order; nothing sorts them
lib_collect_route_files(fs, base_dir, dir, order) ==
    lib_collect_listing(fs, base_dir, dir, read_dir(fs, base_dir, dir, order))

lib_methods == <<"get", "post", "put", "delete", "patch", "head", "options">>

RECURSIVE lib_found_methods(_)
lib_found_methods(items) ==
    IF Len(items) = 0 THEN <<>>
    ELSE LET item == Head(items)
             is_method == \E i \in 1..Len(lib_methods) : lib_methods[i] = item.name
         IN  IF item.kind = "fn" /\ is_method /\ item.vis = "pub" /\ item.asyncness
             THEN <<item.name>> \o lib_found_methods(Tail(items))
             ELSE lib_found_methods(Tail(items))

lib_methods_for_route(file) ==
    IF file.read = "unreadable" THEN <<>>
    ELSE IF file.read = "parse_error" THEN <<>>
    ELSE lib_found_methods(file.items)

\* the registration loop of folder_router from route i on; it returns the
\* compile_error! alone as soon as one unit has no method
RECURSIVE lib_registrations_loop(_, _, _, _)
lib_registrations_loop(read, rs, i, acc) ==
    IF i > Len(rs) THEN [error |-> "none", route_registrations |-> acc]
    ELSE LET p == path_to_module_path(rs[i].rel_path)
             method_registrations == lib_methods_for_route(read[rs[i].route_path])
         IN  IF Len(method_registrations) = 0
             THEN [error |-> "NoRoutesDefined", route_registrations |-> <<>>]
             ELSE lib_registrations_loop(read, rs, i + 1,
                     Append(acc, [axum_path |-> p.axum_path,
                                  mod_path |-> p.mod_path,
                                  methods |-> method_registrations]))

folder_router(rs, read) ==
    IF Len(rs) = 0
    THEN [error |-> "NoRouteFiles", route_registrations |-> <<>>]
    ELSE lib_registrations_loop(read, rs, 1, <<>>)

LegacyFolderRouter ==
    /\ pc = "start"
    /\ \E order \in EnumOrders :
         LET rs == lib_collect_route_files(snapshot(units, order),
                                           BaseDir, BaseDir, order)
         IN  \E read \in [{rs[k].route_path : k \in 1..Len(rs)} -> UnitSources] :
                /\ routes' = rs
                /\ files' = read
                /\ legacy' = folder_router(rs, read)
    /\ pc' = "legacy_done"
    /\ UNCHANGED <<units, errors, registrations, module_tree, input, output, stack, visited>>

\* both macros of the crate
SpecLib == Init /\ [][Next \/ LegacyFolderRouter]_vars

-----------------------------------------------------------------------------
(* Vocabulary of the properties *)

\* a segment name wrapped in brackets, and the name inside them
Wrapped(s) == Len(s) >= 2 /\ s[1] = "[" /\ s[Len(s)] = "]"
Inner(s) == SubSeq(s, 2, Len(s) - 1)
Dotted(s) == Len(s) >= 3 /\ SubSeq(s, 1, 3) = <<".", ".", ".">>
IsCatchAll(s) == Wrapped(s) /\ Dotted(Inner(s))
IsParam(s) == Wrapped(s) /\ ~Dotted(Inner(s))
BindingName(s) == IF IsCatchAll(s) THEN SubSeq(Inner(s), 4, Len(Inner(s))) ELSE Inner(s)

\* the directory segments of a unit's relative path (all but the final route.rs)
DirSegments(rel) ==
    IF Len(rel) > 0 /\ rel[Len(rel)] = ROUTE_RS THEN SubSeq(rel, 1, Len(rel) - 1) ELSE rel

\* the i-th "/"-introduced fragment of a URL pattern
Slashes(p) == {k \in 1..Len(p) : p[k] = "/"}
Fragment(p, i) ==
    LET from == CHOOSE k \in Slashes(p) : Cardinality({j \in Slashes(p) : j < k}) = i - 1
        later == {j \in Slashes(p) : j > from}
        to == IF later = {} THEN Len(p)
              ELSE (CHOOSE j \in later : \A l \in later : j <= l) - 1
    IN  IF Cardinality(Slashes(p)) < i THEN <<>> ELSE SubSeq(p, from, to)

\* rank of a method token in the canonical order
CanonicalRank(m) ==
    CASE m = "any" -> 0 [] m = "get" -> 1 [] m = "post" -> 2 [] m = "put" -> 3
      [] m = "delete" -> 4 [] m = "patch" -> 5 [] m = "head" -> 6
      [] m = "options" -> 7 [] m = "trace" -> 8 [] m = "connect" -> 9

MethodTokens ==
    {"any", "get", "post", "put", "delete", "patch", "head", "options", "trace", "connect"}

Range(f) == {f[i] : i \in DOMAIN f}

\* the source has a top-level `pub async fn m`
Declares(file, m) ==
    /\ file.read = "ok"
    /\ \E i \in 1..Len(file.items) :
          /\ file.items[i].kind = "fn"
          /\ file.items[i].name = m
          /\ file.items[i].vis = "pub"
          /\ file.items[i].asyncness

\* the unit exposes at least one handler method
HasMethod(file) == \E m \in MethodTokens : Declares(file, m)

\* the discovered units that expose a method, in the order of `routes`
WithMethods == SelectSeq(routes, LAMBDA r : HasMethod(files[r.route_path]))

HasError(kind) == \E i \in 1..Len(errors) : errors[i].kind = kind

SLASH == <<"/">>
SLASH_USERS == <<"/">> \o USERS
SLASH_USERS_ID == <<"/">> \o USERS \o <<"/", "{", "i", "d", "}">>
SLASH_FILES_PATH == <<"/">> \o FILES \o <<"/", "{", "*", "p", "a", "t", "h", "}">>

RootUnit == BaseDir \o <<ROUTE_RS>>
UsersUnit == BaseDir \o <<USERS, ROUTE_RS>>
UsersIdUnit == BaseDir \o <<USERS, ID, ROUTE_RS>>
FilesPathUnit == BaseDir \o <<FILES, CATCHALL_PATH, ROUTE_RS>>

-----------------------------------------------------------------------------
(* Properties *)

\* C1: for every directory segment [name] of a unit's relative path,
\* path_to_module_path emits the URL fragment /{name} and the namespace
\* fragment __name.
C1_ParamFragment ==
    pc = "path_done" =>
        \A i \in 1..Len(DirSegments(input)) :
            IsParam(input[i]) =>
                /\ Fragment(output.axum_path, i) = <<"/", "{">> \o Inner(input[i]) \o <<"}">>
                /\ output.mod_path[i] = <<"_", "_">> \o Inner(input[i])

C3_RootPattern ==
    pc = "path_done" =>
        /\ Len(DirSegments(input)) = 0 => output.axum_path = SLASH
        /\ Len(DirSegments(input)) > 0 =>
              output.axum_path # SLASH /\ Len(output.axum_path) > 0

C3_Witness ==
    pc = "path_done" /\ input = <<ROUTE_RS>> /\ output.axum_path = SLASH

\* C4: the list returned by methods_for_route is strictly ascending in the
\* canonical rank, whatever the declaration order; `any`, when declared, is
\* first.
C4_CanonicalOrder ==
    pc = "methods_done" =>
        /\ \A i, j \in 1..Len(output) :
              i < j => CanonicalRank(output[i]) < CanonicalRank(output[j])
        /\ Declares(input, "any") => Len(output) > 0 /\ output[1] = "any"

C4_Witness ==
    /\ pc = "methods_done"
    /\ input = Parsed(<<PubAsync("get"), PubAsync("any")>>)
    /\ output = <<"any", "get">>

C6_DiscoveryEmpty ==
    (pc \in {"parsed", "done"} /\ Len(routes) = 0) =>
        /\ \E i \in 1..Len(errors) :
              errors[i].kind = "NoRouteFiles" /\ errors[i].path = BaseDir
        /\ Len(registrations) = 0

C6_Witness ==
    pc = "done" /\ units = {} /\ Len(routes) = 0 /\ HasError("NoRouteFiles")

\* C7: when units exist and none exposes a method, route_registrations
\* records the definition error; it records it only when the route table is
\* empty.
C7_DefinitionEmpty ==
    pc = "done" =>
        /\ (Len(routes) > 0 /\ Len(WithMethods) = 0) => HasError("NoRoutesDefined")
        /\ HasError("NoRoutesDefined") => Len(registrations) = 0

C7_Witness ==
    /\ pc = "done"
    /\ Len(routes) = 2
    /\ Len(WithMethods) = 0
    /\ HasError("NoRoutesDefined")

\* C8: a unit without methods does not fail the build: whenever a discovered
\* unit exposes a method, no error is recorded and the route table has one
\* entry per unit that exposes a method.
C8_EmptyUnitTolerated ==
    /\ (pc = "done" /\ Len(WithMethods) > 0) =>
          Len(errors) = 0 /\ Len(registrations) = Len(WithMethods)
    /\ (pc = "legacy_done" /\ Len(WithMethods) > 0) =>
          /\ legacy.error = "none"
          /\ Len(legacy.route_registrations) = Len(WithMethods)

\* C9: the collector's result is ascending in the units' relative paths,
\* compared component by component, and the route table is the subsequence,
\* in that order, of the units that expose a method.
C9_SortedTable ==
    pc \in {"parsed", "done"} =>
        /\ \A i, j \in 1..Len(routes) :
              i < j => PathLess(routes[i].rel_path, routes[j].rel_path)
        /\ pc = "done" =>
              /\ Len(registrations) = Len(WithMethods)
              /\ \A k \in 1..Len(registrations) :
                    registrations[k].mod_path
                        = path_to_module_path(WithMethods[k].rel_path).mod_path

C9_Witness ==
    /\ pc = "done"
    /\ Len(routes) = 3
    /\ Len(registrations) = 2
    /\ ~HasMethod(files[routes[2].route_path])

\* the tree of scenario B: root unit (get, post), users (get), users/[id] (get)
ScenarioB ==
    /\ pc = "done"
    /\ units = {<<>>, <<USERS>>, <<USERS, ID>>}
    /\ Declares(files[RootUnit], "get") /\ Declares(files[RootUnit], "post")
    /\ Declares(files[UsersUnit], "get") /\ ~Declares(files[UsersUnit], "post")
    /\ Declares(files[UsersIdUnit], "get") /\ ~Declares(files[UsersIdUnit], "post")

\* C10 as stated: scenario B gives three entries in the order "/", "/users",
\* "/users/{id}".
C10_DirectoryFirst ==
    ScenarioB =>
        /\ Len(registrations) = 3
        /\ registrations[1].axum_path = SLASH
        /\ registrations[2].axum_path = SLASH_USERS
        /\ registrations[3].axum_path = SLASH_USERS_ID

\* C10 amended: scenario B gives three entries in the order root unit ("/"),
\* unit of users/[id], unit of users ("/users").
C10_SubdirectoryFirst ==
    ScenarioB =>
        /\ Len(registrations) = 3
        /\ registrations[1].axum_path = SLASH
        /\ registrations[1].mod_path = <<ROUTE>>
        /\ registrations[2].mod_path = <<USERS, <<"_", "_", "i", "d">>, ROUTE>>
        /\ registrations[3].axum_path = SLASH_USERS
        /\ registrations[3].mod_path = <<USERS, ROUTE>>

C10_Witness == ScenarioB /\ Len(registrations) = 3

\* the collector's result over the snapshot when read_dir enumerates in `order`
Collected(order) == collect_route_files(snapshot(units, order), BaseDir, BaseDir, order)

\* the entries in the order read_dir yields them, before any sorting
Enumerated(order) ==
    lib_collect_route_files(snapshot(units, order), BaseDir, BaseDir, order)

\* C11: the output of a run is the one that any enumeration order of the
\* same snapshot gives: the collected units and their order, the emitted
\* module tree (modules and the order of siblings), and the route table
\* built from the same unit contents.
C11_OrderIndependent ==
    pc \in {"parsed", "tree", "done"} =>
        \A order \in EnumOrders :
            LET rs == Collected(order)
            IN  /\ routes = rs
                /\ pc \in {"tree", "done"} =>
                      generate_module_hierarchy(module_tree, <<>>)
                          = generate_module_hierarchy(build_module_tree(rs), <<>>)
                /\ pc = "done" =>
                      registrations = route_registrations(<<>>, files, rs).registrations

C11_Witness ==
    /\ pc = "done"
    /\ Len(registrations) >= 2
    /\ Enumerated("asc") # Enumerated("desc")
    /\ routes # Enumerated("desc")

\* the directories the scan reaches: every directory from the base down to
\* them can be listed
Listed(fs) ==
    {d \in Dirs(fs) : \A n \in 0..Len(d) : SubSeq(d, 1, n) \notin fs.unlistable}

\* the pair returned for the file route.rs of directory d
UnitOf(d) == [route_path |-> BaseDir \o d \o <<ROUTE_RS>>, rel_path |-> d \o <<ROUTE_RS>>]

\* C12: collect_route_files returns, once each, exactly the files named
\* route.rs of the base directory and of the directories below it that the
\* scan can list, each with its path relative to the base; files of another
\* name, directories called route.rs and the contents of a directory that
\* cannot be listed are not returned, and the units beside such a directory
\* are.
C12_ExactlyRouteFiles ==
    pc = "collect_done" =>
        /\ Range(output) = {UnitOf(d) : d \in Listed(input) \cap input.units}
        /\ Len(output) = Cardinality(Listed(input) \cap input.units)

C12_Witness ==
    /\ pc = "collect_done"
    /\ input.units = {<<>>, <<USERS>>}
    /\ input.others = {<<ROUTE_RS_UPPER>>}
    /\ input.unlistable = {<<USERS>>}
    /\ output = <<UnitOf(<<>>)>>

\* the unit's file could not be read, or its text did not parse
Failed(r) == files[r.route_path].read \in {"unreadable", "parse_error"}

\* C13: a unit whose file cannot be read or parsed has the empty method
\* list and no route entry; the route table is the one of the run over the
\* other units alone; an error is recorded only when the route table is
\* empty.
C13_UnreadableUnit ==
    pc = "done" =>
        /\ \A k \in 1..Len(routes) :
              Failed(routes[k]) =>
                  /\ methods_for_route(files[routes[k].route_path]) = <<>>
                  /\ \A j \in 1..Len(registrations) :
                        registrations[j].mod_path
                            # path_to_module_path(routes[k].rel_path).mod_path
        /\ registrations
              = route_registrations(<<>>, files,
                    SelectSeq(routes, LAMBDA r : ~Failed(r))).registrations
        /\ Len(errors) > 0 => Len(registrations) = 0

C13_Witness ==
    /\ pc = "done"
    /\ Len(routes) = 2
    /\ files[routes[1].route_path].read = "parse_error"
    /\ files[routes[2].route_path].read = "ok"
    /\ Len(registrations) = 1
    /\ registrations[1].mod_path = path_to_module_path(routes[2].rel_path).mod_path
    /\ Len(errors) = 0

\* the last segment of a node path: the raw name of the node
RawName(p) == p[Len(p)]

\* no two modules of one level share a name, at any level
RECURSIVE SiblingsDistinct(_)
SiblingsDistinct(mods) ==
    /\ \A i, j \in 1..Len(mods) : i # j => mods[i].name # mods[j].name
    /\ \A i \in 1..Len(mods) : SiblingsDistinct(mods[i].content)

\* C14: two distinct names of sibling directories normalize to two distinct
\* identifiers, and no two sibling modules of the emitted module tree share
\* a name.
C14_DistinctSiblings ==
    /\ pc \in {"fold", "emitted"} =>
          \A at \in DOMAIN module_tree :
              \A p, q \in children(module_tree, at) :
                  p # q => normalize_module_name(RawName(p)) # normalize_module_name(RawName(q))
    /\ pc = "emitted" => SiblingsDistinct(output)

\* the units added so far
Folded == units \ input

\* C16: at every point of the fold, a node has has_route exactly when one
\* of the units added so far ends at it (the node's path, then route.rs);
\* for the root: exactly when a unit of the base directory was added.
C16_HasRoute ==
    pc \in {"fold", "emitted"} =>
        /\ \A n \in DOMAIN module_tree : module_tree[n] <=> n \in Folded
        /\ module_tree[<<>>] <=> <<>> \in Folded
        /\ Folded \subseteq DOMAIN module_tree

C16_Witness ==
    /\ pc = "emitted"
    /\ units = {<<>>, <<ID, UNDERSCORE_ID>>}
    /\ module_tree[<<>>]
    /\ ~module_tree[<<ID>>]
    /\ module_tree[<<ID, UNDERSCORE_ID>>]

\* C15: for a literal segment name (one that does not both start with "["
\* and end with "]"), normalize_module_name returns a name of the same
\* length, in which every "-" and "." is replaced by "_" and every other
\* character is kept; the result holds no "-" and no ".".
C15_LiteralName ==
    (pc = "name_done" /\ ~(starts_with(input, "[") /\ ends_with(input, "]"))) =>
        /\ Len(output) = Len(input)
        /\ \A i \in 1..Len(input) :
              output[i] = IF input[i] \in {"-", "."} THEN "_" ELSE input[i]
        /\ \A i \in 1..Len(output) : output[i] \notin {"-", "."}

C15_Witness ==
    /\ pc = "name_done"
    /\ input = <<"[", "-", ".">>
    /\ output = <<"[", "_", "_">>

\* C17: a run records at most one aggregate error; when the collector finds
\* no unit it records the discovery error alone, and the definition error is
\* recorded only when units exist.
C17_OneAggregateError ==
    pc = "done" =>
        /\ Len(errors) <= 1
        /\ Len(routes) = 0 => HasError("NoRouteFiles") /\ ~HasError("NoRoutesDefined")
        /\ HasError("NoRoutesDefined") => Len(routes) > 0

\* no element occurs twice in the sequence
NoRepeat(q) == \A i, j \in 1..Len(q) : i # j => q[i] # q[j]

\* C18: the list returned by methods_for_route holds only tokens of the
\* fixed ten and none of them twice, also for a source that declares a
\* method more than once; no entry of the route table lists a method twice.
C18_NoDuplicateMethod ==
    /\ pc = "methods_done" =>
          /\ NoRepeat(output)
          /\ \A i \in 1..Len(output) : output[i] \in MethodTokens
    /\ pc = "done" =>
          \A k \in 1..Len(registrations) :
              /\ NoRepeat(registrations[k].methods)
              /\ \A i \in 1..Len(registrations[k].methods) :
                    registrations[k].methods[i] \in MethodTokens

C18_Witness ==
    /\ pc = "methods_done"
    /\ input = Parsed(<<PubAsync("get"), PubAsync("get")>>)
    /\ output = <<"get">>

\* following mod_path from its i-th identifier on, from the node at `at`:
\* each identifier but the last is the normalized raw name of a child, the
\* last is `route` and the node reached has a route
RECURSIVE Resolves(_, _, _, _)
Resolves(tree, at, mod_path, i) ==
    IF i = Len(mod_path)
    THEN mod_path[i] = ROUTE /\ tree[at]
    ELSE \E c \in children(tree, at) :
            /\ normalize_module_name(RawName(c)) = mod_path[i]
            /\ Resolves(tree, c, mod_path, i + 1)

\* the emitted modules declare mod_path from its i-th identifier on: inline
\* modules down to the module `route` of a file
RECURSIVE Declared(_, _, _)
Declared(mods, mod_path, i) ==
    \E k \in 1..Len(mods) :
        /\ mods[k].name = mod_path[i]
        /\ IF i = Len(mod_path)
           THEN ~mods[k].inline
           ELSE mods[k].inline /\ Declared(mods[k].content, mod_path, i + 1)

\* C19: the namespace path of every entry of the route table leads, in the
\* module tree built from the same units, from the root through children
\* whose normalized names are its identifiers to a node that has a route,
\* and the emitted module hierarchy declares that path.
C19_TableAgreesWithTree ==
    pc = "done" =>
        \A k \in 1..Len(registrations) :
            /\ Len(registrations[k].mod_path) > 0
            /\ Resolves(module_tree, <<>>, registrations[k].mod_path, 1)
            /\ Declared(generate_module_hierarchy(module_tree, <<>>),
                        registrations[k].mod_path, 1)

C19_Witness ==
    /\ pc = "done"
    /\ units = {<<>>, <<USERS, ID>>}
    /\ Len(registrations) = 2
    /\ registrations[2].mod_path = <<USERS, UNDERSCORE_ID, ROUTE>>
    /\ ~module_tree[<<USERS>>]
    /\ module_tree[<<USERS, ID>>]

\* the units of S as routes, in ascending order of their paths
RECURSIVE SortedUnits(_)
SortedUnits(S) ==
    IF S = {} THEN <<>>
    ELSE LET first == CHOOSE d \in S : \A e \in S \ {d} :
                          PathLess(d \o <<ROUTE_RS>>, e \o <<ROUTE_RS>>)
         IN  <<UnitOf(first)>> \o SortedUnits(S \ {first})

\* tree t keeps every node of tree s, and every flag that is set in s
Keeps(s, t) == \A n \in DOMAIN s : n \in DOMAIN t /\ (s[n] => t[n])

\* C20: whatever the order of the calls of add_to_module_tree so far, the
\* tree is the one that folding the added units in ascending order gives;
\* adding again a unit already added leaves the tree as it is; a further
\* call for any unit keeps every node and every flag that is set.
C20_FoldOrderIndependent ==
    pc = "fold" =>
        /\ module_tree = build_module_tree(SortedUnits(Folded))
        /\ \A d \in Folded :
              add_to_module_tree(module_tree, d \o <<ROUTE_RS>>) = module_tree
        /\ \A d \in units :
              Keeps(module_tree, add_to_module_tree(module_tree, d \o <<ROUTE_RS>>))

C20_Witness ==
    /\ pc = "fold"
    /\ units = {<<ID>>, <<ID, UNDERSCORE_ID>>, <<UNDERSCORE_ID>>}
    /\ input = {}
    /\ module_tree[<<ID>>] /\ module_tree[<<ID, UNDERSCORE_ID>>]

\* the directories read_dir is called on: the base directory, and every
\* directory below it whose ancestors can all be listed
Reached(fs) ==
    {<<>>} \cup {d \in Dirs(fs) : \A n \in 0..(Len(d) - 1) : SubSeq(d, 1, n) \notin fs.unlistable}

\* no directory is visited twice; when the call has returned, the visited
\* directories are the ones of the tree that can be reached, each returned
\* pair occurs once, its relative path ends in route.rs and is its absolute
\* path without the base directory, and the pairs are the route units
WalkedOnce ==
    /\ NoRepeat(visited)
    /\ pc = "walk_done" =>
        /\ Range(visited) = {BaseDir \o d : d \in Reached(input)}
        /\ NoRepeat(output)
        /\ \A i \in 1..Len(output) :
              /\ output[i].rel_path[Len(output[i].rel_path)] = ROUTE_RS
              /\ IsPrefix(BaseDir, output[i].route_path)
              /\ output[i].rel_path =
                    SubSeq(output[i].route_path, Len(BaseDir) + 1, Len(output[i].route_path))
        /\ Range(output) = {UnitOf(d) : d \in Listed(input) \cap input.units}

\* C21: on every finite directory tree collect_route_files terminates, calls
\* read_dir on each directory once, and returns each route unit exactly once,
\* every relative path ending in the segment route.rs and being the unit's
\* absolute path with the base directory prefix removed.
C21_TerminatesVisitingOnce == []WalkedOnce /\ <>(pc = "walk_done")

\* a run that went into a directory, skipped a file of another name, and
\* returned the directory's unit
C21_Witness ==
    /\ pc = "walk_done"
    /\ input.units = {<<USERS>>}
    /\ input.others = {<<ROUTES_RS>>}
    /\ input.unlistable = {}
    /\ visited = <<BaseDir, BaseDir \o <<USERS>>>>
    /\ output = <<UnitOf(<<USERS>>)>>

====
